---- MODULE Spec2Model ----
(***************************************************************************)
(* A model of the instr interpreter: label resolution (src/src/parse.rs),  *)
(* the pipeline of main (src/src/main.rs) and the fetch-execute machine    *)
(* (src/src/run.rs, src/src/instrs.rs).                                    *)
(*                                                                         *)
(* Representation.                                                         *)
(*   Reg      "X" | "Acc"                                                  *)
(*   Val      <<"Num", n>> | <<"X">>                                       *)
(*   Token    [inner |-> name, span |-> k]; the byte range of a token lies *)
(*            inside its own source line, so the span is modelled by the   *)
(*            number k of that line: spans of different lines differ and   *)
(*            are ordered as the lines are.                                *)
(*   Instr    <<"Gol">>, <<"Get", reg>>, <<"Jnz", reg, token>>,            *)
(*            <<"Set", val>>, ...                                          *)
(*   AstLine  <<"Instr", instr>> | <<"Label", token>> | <<"Error">>        *)
(*   i64      a two's complement integer of IntBits bits (64 in the        *)
(*            program; scaled down so that the overflow cases are reached) *)
(***************************************************************************)
EXTENDS Integers, Sequences, FiniteSets, TLC

VARIABLES
    status,           \* "parsed" | "label_errors" | "running" | "reading" | "halted" | "aborted"
    ast,              \* the Ast the parser handed to main
    program,          \* State.program: the resolved instruction sequence
    labels,           \* State.labels: label name -> instruction index
    errs,             \* the Vec<LabelError> resolve returned
    x,                \* State.x
    acc,              \* State.acc
    tape,             \* State.tape (1-based here: tape[k+1] is cell k)
    cursor,           \* State.cursor
    instr_ptr,        \* State.instr_ptr (0-based, as in the program)
    jumped,           \* State.jumped
    input_buf,        \* State.input_buf, as its bytes
    input_cursor,     \* State.input_cursor
    output,           \* what Out printed to stdout: the sequence of values N
    eof,              \* standard input has reached end-of-input
    overflow_checks,  \* the build panics on arithmetic overflow (debug) or wraps (release)
    err,              \* why the run aborted, "" while it has not
    stdin_read,       \* history: the bytes read_line has taken from standard input
    inp_values        \* history: the values Inp has written to the tape

vars == <<status, ast, program, labels, errs, x, acc, tape, cursor, instr_ptr,
          jumped, input_buf, input_cursor, output, eof, overflow_checks, err,
          stdin_read, inp_values>>

machine == <<x, acc, tape, cursor, instr_ptr, jumped, input_buf, input_cursor,
             output, eof, err>>

history == <<stdin_read, inp_values>>

----------------------------------------------------------------------------
(* Bounds of the model *)

\* longest Ast drawn in Init
MaxLines == 4

\* width in bits of the machine integer (i64 scaled down)
IntBits == 5

\* Gor is not taken beyond this cursor
MaxCursor == 3

\* Out is not taken once this many values were printed
MaxOut == 2

----------------------------------------------------------------------------
(* Machine integers *)

Pow2(n) == 2 ^ n

MinInt == - Pow2(IntBits - 1)

MaxInt == Pow2(IntBits - 1) - 1

I64 == MinInt .. MaxInt

\* the two's complement value of n in IntBits bits
Wrap(n) == ((n - MinInt) % Pow2(IntBits)) + MinInt

Abs(n) == IF n < 0 THEN -n ELSE n

\* Rust's integer division truncates towards zero
TruncDiv(a, b) ==
    IF (a < 0) = (b < 0) THEN Abs(a) \div Abs(b) ELSE - (Abs(a) \div Abs(b))

\* The code points, scaled down with the integer so that every outcome of the
\* two conversions in State::out lies in I64 and keeps its order:
\*   0 < surrogates < char::MAX < u32::MAX < i64::MAX

\* u32::MAX: the largest value u32::try_from accepts
U32Max == MaxInt - 1

\* char::MAX (0x10FFFF): the largest value char::try_from accepts
CharMax == MaxInt - 2

\* the surrogate range (0xD800 ..= 0xDFFF), which char::try_from rejects
SurrogateLo == MaxInt - 4

SurrogateHi == MaxInt - 3

\* '\n' as i64
Newline == 10

\* a byte of input other than the newline
OtherByte == 7

----------------------------------------------------------------------------
(* The Ast: tokens, instructions, lines *)

Token(inner, span) == [inner |-> inner, span |-> span]

IsInstr(line) == line[1] = "Instr"

IsLabel(line) == line[1] = "Label"

IsError(line) == line[1] = "Error"

\* the pattern Instr::Jmp(token) | Instr::Jnz(_, token) | Instr::Jlz(_, token)
IsJump(instr) == instr[1] \in {"Jmp", "Jnz", "Jlz"}

JumpToken(instr) == IF instr[1] = "Jmp" THEN instr[2] ELSE instr[3]

Num(n) == <<"Num", n>>

ValX == <<"X">>

\* The lines the parser can put at line k of a source text, by family of
\* programs.  An immediate is parsed from its digits and then negated, so it
\* lies in -MaxInt .. MaxInt: MinInt is no immediate.
LinesAt(family, k) ==
    CASE family = "link" ->
           { <<"Error">>,
             <<"Label", Token("a", k)>>,
             <<"Label", Token("b", k)>>,
             <<"Instr", <<"Dec">>>>,
             <<"Instr", <<"Jmp", Token("a", k)>>>>,
             <<"Instr", <<"Jnz", "Acc", Token("b", k)>>>> }
      [] family = "jumpx" ->
           { <<"Label", Token("a", k)>>,
             <<"Instr", <<"Set", Num(-1)>>>>,
             <<"Instr", <<"Set", Num(2)>>>>,
             <<"Instr", <<"Put", "X">>>>,
             <<"Instr", <<"Jnz", "X", Token("a", k)>>>>,
             <<"Instr", <<"Jlz", "X", Token("a", k)>>>> }
      [] family = "jumpacc" ->
           { <<"Label", Token("a", k)>>,
             <<"Instr", <<"Dec">>>>,
             <<"Instr", <<"Out">>>>,
             <<"Instr", <<"Sav">>>>,
             <<"Instr", <<"Jnz", "Acc", Token("a", k)>>>>,
             <<"Instr", <<"Jlz", "Acc", Token("a", k)>>>> }
      [] family = "call" ->
           { <<"Instr", <<"Sav">>>>,
             <<"Instr", <<"Ret">>>>,
             <<"Instr", <<"Set", Num(-1)>>>>,
             <<"Instr", <<"Set", Num(2)>>>>,
             <<"Instr", <<"Gor">>>>,
             <<"Instr", <<"Out">>>> }
      [] family = "addmul" ->
           { <<"Instr", <<"Set", Num(-MaxInt)>>>>,
             <<"Instr", <<"Add", Num(-1)>>>>,
             <<"Instr", <<"Add", ValX>>>>,
             <<"Instr", <<"Mul", Num(-1)>>>>,
             <<"Instr", <<"Mul", ValX>>>>,
             <<"Instr", <<"Put", "X">>>> }
      [] family = "div" ->
           { <<"Instr", <<"Set", Num(-MaxInt)>>>>,
             <<"Instr", <<"Add", Num(-1)>>>>,
             <<"Instr", <<"Put", "X">>>>,
             <<"Instr", <<"Div", Num(-1)>>>>,
             <<"Instr", <<"Div", Num(0)>>>>,
             <<"Instr", <<"Div", Num(2)>>>>,
             <<"Instr", <<"Div", ValX>>>> }
      [] family = "tape" ->
           { <<"Instr", <<"Gol">>>>,
             <<"Instr", <<"Gor">>>>,
             <<"Instr", <<"Get", "Acc">>>>,
             <<"Instr", <<"Put", "X">>>>,
             <<"Instr", <<"Dec">>>>,
             <<"Instr", <<"Out">>>> }
      [] family = "out" ->
           { <<"Instr", <<"Set", Num(-1)>>>>,
             <<"Instr", <<"Set", Num(1)>>>>,
             <<"Instr", <<"Set", Num(SurrogateLo)>>>>,
             <<"Instr", <<"Set", Num(SurrogateHi)>>>>,
             <<"Instr", <<"Set", Num(CharMax)>>>>,
             <<"Instr", <<"Set", Num(U32Max)>>>>,
             <<"Instr", <<"Set", Num(MaxInt)>>>>,
             <<"Instr", <<"Out">>>> }
      [] family = "input" ->
           { <<"Instr", <<"Inp">>>>,
             <<"Instr", <<"Gor">>>>,
             <<"Instr", <<"Get", "X">>>>,
             <<"Instr", <<"Put", "X">>>>,
             <<"Instr", <<"Put", "Acc">>>>,
             <<"Instr", <<"Out">>>> }

Families ==
    {"link", "jumpx", "jumpacc", "call", "addmul", "div", "tape", "out", "input"}

\* the Asts of n lines of a family
RECURSIVE AstsOfLen(_, _)
AstsOfLen(family, n) ==
    IF n = 0 THEN { <<>> }
    ELSE { Append(a, l) : a \in AstsOfLen(family, n - 1), l \in LinesAt(family, n) }

\* the lines standard input can deliver: a blank line, a line of one byte,
\* and a last line that lacks its newline
InputLines == { <<Newline>>, <<OtherByte, Newline>>, <<OtherByte>> }

----------------------------------------------------------------------------
(* parse::resolve *)

\* HashMap::insert
Insert(map, key, value) ==
    [k \in DOMAIN map \cup {key} |-> IF k = key THEN value ELSE map[k]]

Redefined(label, first, second) == <<"Redefined", label, first, second>>

Unknown(token) == <<"Unknown", token>>

\* LabelStep with a re-definition that also replaces the recorded entry
LabelStepOverwrite(st, line) ==
    IF IsLabel(line)
    THEN LET token == line[2]
             es == IF token.inner \in DOMAIN st.spans
                   THEN Append(st.errs, Redefined(token.inner,
                                                  st.spans[token.inner],
                                                  token.span))
                   ELSE st.errs
         IN  [st EXCEPT !.errs = es,
                        !.labels = Insert(@, token.inner, st.instr_idx),
                        !.spans = Insert(@, token.inner, token.span)]
    ELSE [st EXCEPT !.instr_idx = @ + 1]

\* one iteration of the first loop of resolve over a line
LabelStep(st, line) ==
    IF IsLabel(line)
    THEN LET token == line[2] IN
         IF token.inner \in DOMAIN st.spans
         THEN [st EXCEPT !.errs = Append(@, Redefined(token.inner,
                                                   st.spans[token.inner],
                                                   token.span))]
         ELSE [st EXCEPT !.labels = Insert(@, token.inner, st.instr_idx),
                         !.spans = Insert(@, token.inner, token.span)]
    ELSE [st EXCEPT !.instr_idx = @ + 1]

\* the first loop of resolve, over lines 1 .. n of the Ast
RECURSIVE LabelPass(_, _)
LabelPass(a, n) ==
    IF n = 0
    THEN [labels |-> <<>>, spans |-> <<>>, errs |-> <<>>, instr_idx |-> 0]
    ELSE LabelStep(LabelPass(a, n - 1), a[n])

\* RefStep with a pattern that leaves out Instr::Jlz
RefStepNoJlz(spans, es, line) ==
    IF /\ IsInstr(line)
       /\ line[2][1] \in {"Jmp", "Jnz"}
       /\ JumpToken(line[2]).inner \notin DOMAIN spans
    THEN Append(es, Unknown(JumpToken(line[2])))
    ELSE es

\* one iteration of the second loop of resolve over a line
RefStep(spans, es, line) ==
    IF IsInstr(line) /\ IsJump(line[2]) /\ JumpToken(line[2]).inner \notin DOMAIN spans
    THEN Append(es, Unknown(JumpToken(line[2])))
    ELSE es

\* RefPass that stops at the first unknown label it finds
RECURSIVE RefPassStopAtFirst(_, _, _, _)
RefPassStopAtFirst(a, n, spans, es) ==
    IF n = 0 THEN es
    ELSE LET before == RefPassStopAtFirst(a, n - 1, spans, es)
         IN  IF Len(before) > Len(es) THEN before
             ELSE RefStep(spans, before, a[n])

\* the second loop of resolve, over lines 1 .. n of the Ast
RECURSIVE RefPass(_, _, _, _)
RefPass(a, n, spans, es) ==
    IF n = 0 THEN es ELSE RefStep(spans, RefPass(a, n - 1, spans, es), a[n])

\* the filter_map of resolve: the Instr lines, in order
RECURSIVE Instrs(_)
Instrs(a) ==
    IF a = <<>> THEN <<>>
    ELSE IF IsInstr(a[1]) THEN <<a[1][2]>> \o Instrs(Tail(a))
    ELSE Instrs(Tail(a))

\* resolve that returns early on the errors of the first loop alone
resolveFirstPassOnly(a) ==
    LET p1 == LabelPass(a, Len(a))
    IN  IF p1.errs = <<>>
        THEN [ok |-> TRUE, program |-> Instrs(a), labels |-> p1.labels, errs |-> <<>>]
        ELSE [ok |-> FALSE, program |-> <<>>, labels |-> <<>>, errs |-> p1.errs]

\* resolve: Ok((program, labels)) or Err(errs)
resolve(a) ==
    LET p1 == LabelPass(a, Len(a))
        es == RefPass(a, Len(a), p1.spans, p1.errs)
    IN  IF es = <<>>
        THEN [ok |-> TRUE, program |-> Instrs(a), labels |-> p1.labels, errs |-> <<>>]
        ELSE [ok |-> FALSE, program |-> <<>>, labels |-> <<>>, errs |-> es]

----------------------------------------------------------------------------
(* State::new and main *)

Init ==
    /\ status = "parsed"
    /\ \E f \in Families, n \in 0 .. MaxLines : ast \in AstsOfLen(f, n)
    /\ overflow_checks \in BOOLEAN
    /\ program = <<>>
    /\ labels = <<>>
    /\ errs = <<>>
    /\ x = 0
    /\ acc = 0
    /\ tape = <<>>
    /\ cursor = 0
    /\ instr_ptr = 0
    /\ jumped = FALSE
    /\ input_buf = <<>>
    /\ input_cursor = 0
    /\ output = <<>>
    /\ eof = FALSE
    /\ err = ""
    /\ stdin_read = <<>>
    /\ inp_values = <<>>

\* main that also returns without running when the parser reported errors
ResolveUnlessParseErrors ==
    /\ status = "parsed"
    /\ LET r == resolve(ast)
           parse_errors == \E i \in DOMAIN ast : IsError(ast[i])
       IN
        /\ status' = IF r.ok /\ ~ parse_errors THEN "running" ELSE "label_errors"
        /\ program' = r.program
        /\ labels' = r.labels
        /\ errs' = r.errs
    /\ UNCHANGED <<ast, overflow_checks, machine, history>>

\* main: resolve the Ast; run the program, or report the label errors and return
Resolve ==
    /\ status = "parsed"
    /\ LET r == resolve(ast) IN
        /\ status' = IF r.ok THEN "running" ELSE "label_errors"
        /\ program' = r.program
        /\ labels' = r.labels
        /\ errs' = r.errs
    /\ UNCHANGED <<ast, overflow_checks, machine, history>>

----------------------------------------------------------------------------
(* run::State: accessors *)

\* State::reg
reg(r) == IF r = "X" THEN x ELSE acc

\* State::val_of
val_of(val) == IF val[1] = "Num" THEN val[2] ELSE x

\* grow that resizes the tape to one cell more than the access needs
growOneMore(t, c) ==
    IF c >= Len(t) THEN t \o [k \in 1 .. (c + 2 - Len(t)) |-> 0] ELSE t

\* State::grow, a function of the tape and the cursor
grow(t, c) ==
    IF c >= Len(t) THEN t \o [k \in 1 .. (c + 1 - Len(t)) |-> 0] ELSE t

\* State::cur: the value read at the cursor (of the grown tape)
cur(t, c) == grow(t, c)[c + 1]

\* *State::cur_mut() = v: the tape after the store
store(t, c, v) == [grow(t, c) EXCEPT ![c + 1] = v]

\* the result of an operation that may fail
Done(v) == [ok |-> TRUE, v |-> v, err |-> ""]

Fail(e) == [ok |-> FALSE, v |-> 0, err |-> e]

\* an arithmetic result r of type i64: overflow panics in a build with overflow
\* checks and wraps in a build without
Checked(r) ==
    IF r \in I64 THEN Done(r)
    ELSE IF overflow_checks THEN Fail("overflow") ELSE Done(Wrap(r))

\* div that yields 0 for a zero divisor instead of failing
divZeroIsZero(a, b) ==
    IF b = 0 THEN Done(0)
    ELSE IF a = MinInt /\ b = -1 THEN Fail("div_overflow")
    ELSE Done(TruncDiv(a, b))

\* a / b on i64: panics on a zero divisor and, in every build, on MinInt / -1
div(a, b) ==
    IF b = 0 THEN Fail("div_by_zero")
    ELSE IF a = MinInt /\ b = -1 THEN Fail("div_overflow")
    ELSE Done(TruncDiv(a, b))

\* a plain subtraction where the code saturates
golUnsaturated(c) == c - 1

\* usize::saturating_sub(1)
gol(c) == IF c = 0 THEN 0 ELSE c - 1

\* jnz that tests for a positive register
jnzPositive(v) == v > 0

\* State::jnz: does the jump happen
jnz(v) == v # 0

\* State::jlz: does the jump happen
jlz(v) == v < 0

\* usize::try_from(i64)
UsizeTryFrom(v) == IF v >= 0 THEN Done(v) ELSE Fail("ret_negative")

\* IsScalar that lets the surrogates through
IsScalarNoSurrogates(n) ==
    /\ n >= 0 /\ n <= U32Max
    /\ n <= CharMax

\* u32::try_from(i64) and then char::try_from(u32) succeed
IsScalar(n) ==
    /\ n >= 0 /\ n <= U32Max
    /\ n <= CharMax /\ ~ (n >= SurrogateLo /\ n <= SurrogateHi)

----------------------------------------------------------------------------
(* State::run_instr *)

\* run_instr has an instruction to execute
Fetching == status = "running" /\ instr_ptr < Len(program)

\* program.get(instr_ptr)
instr == program[instr_ptr + 1]

\* the end of run_instr: if self.jumped { self.jumped = false } else { self.instr_ptr += 1 }
Complete(ptr, j) ==
    /\ instr_ptr' = IF j THEN ptr ELSE ptr + 1
    /\ jumped' = FALSE

\* a panic or an Err returned by run_instr with `?`: run returns, main returns
Abort(e) ==
    /\ status' = "aborted"
    /\ err' = e
    /\ UNCHANGED <<instr_ptr, jumped>>

fixed == <<ast, program, labels, errs, overflow_checks>>

\* program.get(instr_ptr) is None: ControlFlow::Exit
Exit ==
    /\ status = "running"
    /\ instr_ptr >= Len(program)
    /\ status' = "halted"
    /\ UNCHANGED <<fixed, machine, history>>

Gol ==
    /\ Fetching /\ instr[1] = "Gol"
    /\ cursor' = gol(cursor)
    /\ Complete(instr_ptr, jumped)
    /\ UNCHANGED <<fixed, history, status, x, acc, tape, input_buf, input_cursor, output, eof, err>>

Gor ==
    /\ Fetching /\ instr[1] = "Gor"
    /\ cursor < MaxCursor
    /\ cursor' = cursor + 1
    /\ Complete(instr_ptr, jumped)
    /\ UNCHANGED <<fixed, history, status, x, acc, tape, input_buf, input_cursor, output, eof, err>>

Get ==
    /\ Fetching /\ instr[1] = "Get"
    /\ tape' = store(tape, cursor, reg(instr[2]))
    /\ Complete(instr_ptr, jumped)
    /\ UNCHANGED <<fixed, history, status, x, acc, cursor, input_buf, input_cursor, output, eof, err>>

Put ==
    /\ Fetching /\ instr[1] = "Put"
    /\ tape' = grow(tape, cursor)
    /\ x' = IF instr[2] = "X" THEN cur(tape, cursor) ELSE x
    /\ acc' = IF instr[2] = "Acc" THEN cur(tape, cursor) ELSE acc
    /\ Complete(instr_ptr, jumped)
    /\ UNCHANGED <<fixed, history, status, cursor, input_buf, input_cursor, output, eof, err>>

\* State::jmp: instr_ptr = labels[label]; jumped = true
Jmp ==
    /\ Fetching /\ instr[1] = "Jmp"
    /\ Complete(labels[instr[2].inner], TRUE)
    /\ UNCHANGED <<fixed, history, status, x, acc, tape, cursor, input_buf, input_cursor, output, eof, err>>

Jnz ==
    /\ Fetching /\ instr[1] = "Jnz"
    /\ IF jnz(reg(instr[2]))
       THEN Complete(labels[instr[3].inner], TRUE)
       ELSE Complete(instr_ptr, jumped)
    /\ UNCHANGED <<fixed, history, status, x, acc, tape, cursor, input_buf, input_cursor, output, eof, err>>

Jlz ==
    /\ Fetching /\ instr[1] = "Jlz"
    /\ IF jlz(reg(instr[2]))
       THEN Complete(labels[instr[3].inner], TRUE)
       ELSE Complete(instr_ptr, jumped)
    /\ UNCHANGED <<fixed, history, status, x, acc, tape, cursor, input_buf, input_cursor, output, eof, err>>

\* sav that saves the index of the instruction after it
savNext(ptr) == Wrap(ptr + 1)

\* the value State::sav stores: instr_ptr as i64
sav(ptr) == Wrap(ptr)

\* State::sav: *cur_mut() = instr_ptr as i64
Sav ==
    /\ Fetching /\ instr[1] = "Sav"
    /\ tape' = store(tape, cursor, sav(instr_ptr))
    /\ Complete(instr_ptr, jumped)
    /\ UNCHANGED <<fixed, history, status, x, acc, cursor, input_buf, input_cursor, output, eof, err>>

\* State::ret: instr_ptr = usize::try_from(cur())?; jumped is not set
Ret ==
    /\ Fetching /\ instr[1] = "Ret"
    /\ tape' = grow(tape, cursor)
    /\ LET label == UsizeTryFrom(cur(tape, cursor)) IN
         IF label.ok
         THEN Complete(label.v, jumped) /\ UNCHANGED <<status, err>>
         ELSE Abort(label.err)
    /\ UNCHANGED <<fixed, history, x, acc, cursor, input_buf, input_cursor, output, eof>>

\* State::out
Out ==
    /\ Fetching /\ instr[1] = "Out"
    /\ tape' = grow(tape, cursor)
    /\ IF IsScalar(cur(tape, cursor))
       THEN /\ Len(output) < MaxOut
            /\ output' = Append(output, cur(tape, cursor))
       ELSE output' = output
    /\ Complete(instr_ptr, jumped)
    /\ UNCHANGED <<fixed, history, status, x, acc, cursor, input_buf, input_cursor, eof, err>>

\* State::set
Set ==
    /\ Fetching /\ instr[1] = "Set"
    /\ tape' = store(tape, cursor, val_of(instr[2]))
    /\ Complete(instr_ptr, jumped)
    /\ UNCHANGED <<fixed, history, status, x, acc, cursor, input_buf, input_cursor, output, eof, err>>

\* *cur_mut() op= val_of(val): the operand is evaluated, the tape grown, then
\* the operation r (a result of Checked or div) stored or the run aborted
Assign(r) ==
    /\ IF r.ok
       THEN /\ tape' = store(tape, cursor, r.v)
            /\ Complete(instr_ptr, jumped)
            /\ UNCHANGED <<status, err>>
       ELSE /\ tape' = grow(tape, cursor)
            /\ Abort(r.err)
    /\ UNCHANGED <<fixed, history, x, acc, cursor, input_buf, input_cursor, output, eof>>

\* State::add
Add ==
    /\ Fetching /\ instr[1] = "Add"
    /\ Assign(Checked(cur(tape, cursor) + val_of(instr[2])))

\* State::mul
Mul ==
    /\ Fetching /\ instr[1] = "Mul"
    /\ Assign(Checked(cur(tape, cursor) * val_of(instr[2])))

\* State::div
Div ==
    /\ Fetching /\ instr[1] = "Div"
    /\ Assign(div(cur(tape, cursor), val_of(instr[2])))

\* State::dec: self.acc -= 1
Dec ==
    /\ Fetching /\ instr[1] = "Dec"
    /\ LET r == Checked(acc - 1) IN
         IF r.ok
         THEN acc' = r.v /\ Complete(instr_ptr, jumped) /\ UNCHANGED <<status, err>>
         ELSE acc' = acc /\ Abort(r.err)
    /\ UNCHANGED <<fixed, history, x, tape, cursor, input_buf, input_cursor, output, eof>>

\* what io::stdin().read_line can append to the cleared buffer: nothing at
\* end-of-input, else a line
ReadLines == IF eof THEN { <<>> } ELSE InputLines \cup { <<>> }

\* standard input is at end-of-input after this read
EofAfter(line) == eof \/ line = <<>> \/ line[Len(line)] # Newline

\* inp that takes the recursive call when the line read is empty
inp_againOnEmptyLine(offset, line) == line = <<>>

\* inp that never takes the recursive call
inp_againNever(offset, line) == FALSE

\* `if self.input_cursor == 0 { return self.inp(); }`: after the read, inp
\* tests the offset it was entered with; the line just read plays no part
inp_again(offset, line) == offset = 0

\* State::inp.  An Inp that finds the buffer exhausted at offset 0 and reads
\* an empty line calls itself: the machine is then inside the instruction
\* (status "reading") and the nested call starts inp again.
Inp ==
    /\ \/ Fetching /\ instr[1] = "Inp"
       \/ status = "reading"
    /\ IF input_cursor = Len(input_buf)
       THEN \/ \* read_line fails: `?` returns the error
               /\ input_buf' = <<>>
               /\ Abort("stdin_read")
               /\ UNCHANGED <<tape, input_cursor, eof, history>>
            \/ \E line \in ReadLines :
                 /\ input_buf' = line
                 /\ eof' = EofAfter(line)
                 /\ stdin_read' = stdin_read \o line
                 /\ IF inp_again(input_cursor, line)
                    THEN \* return self.inp()
                         IF input_cursor = Len(line)
                         THEN \* the nested call reads again, and so does the
                              \* next: the instruction is not over, unless the
                              \* nested calls exhaust the stack
                              /\ UNCHANGED <<tape, input_cursor, instr_ptr, jumped, inp_values>>
                              /\ \/ status' = "reading" /\ err' = err
                                 \/ status' = "aborted" /\ err' = "stack_overflow"
                         ELSE /\ tape' = store(tape, cursor, line[input_cursor + 1])
                              /\ inp_values' = Append(inp_values, line[input_cursor + 1])
                              /\ input_cursor' = input_cursor + 1
                              /\ Complete(instr_ptr, jumped)
                              /\ status' = "running"
                              /\ err' = err
                    ELSE /\ tape' = store(tape, cursor, Newline)
                         /\ inp_values' = Append(inp_values, Newline)
                         /\ input_cursor' = 0
                         /\ Complete(instr_ptr, jumped)
                         /\ status' = "running"
                         /\ err' = err
       ELSE /\ tape' = store(tape, cursor, input_buf[input_cursor + 1])
            /\ inp_values' = Append(inp_values, input_buf[input_cursor + 1])
            /\ input_cursor' = input_cursor + 1
            /\ Complete(instr_ptr, jumped)
            /\ UNCHANGED <<status, err, input_buf, eof, stdin_read>>
    /\ UNCHANGED <<fixed, x, acc, cursor, output>>

Next ==
    \/ Resolve
    \/ Exit
    \/ Gol
    \/ Gor
    \/ Get
    \/ Put
    \/ Jmp
    \/ Jnz
    \/ Jlz
    \/ Sav
    \/ Ret
    \/ Inp
    \/ Out
    \/ Set
    \/ Add
    \/ Mul
    \/ Div
    \/ Dec

Spec == Init /\ [][Next]_vars

----------------------------------------------------------------------------
(* Vocabulary of the properties, stated on the Ast itself *)

\* resolve has returned
Resolved == status # "parsed"

\* resolve has returned Ok
ResolvedOk == status \in {"running", "reading", "halted", "aborted"}

\* the lines that define label name
DefsOf(name) == { i \in DOMAIN ast : IsLabel(ast[i]) /\ ast[i][2].inner = name }

DefinedNames == { ast[i][2].inner : i \in { j \in DOMAIN ast : IsLabel(ast[j]) } }

Min(S) == CHOOSE m \in S : \A n \in S : m <= n

\* the line of the first definition of a defined name
FirstDef(name) == Min(DefsOf(name))

\* the number of Instruction lines before line i
InstrLinesBefore(i) == Cardinality({ j \in 1 .. (i - 1) : IsInstr(ast[j]) })

\* the lines that are jumps, and those whose label no line defines
JumpLines == { i \in DOMAIN ast : IsInstr(ast[i]) /\ ast[i][2][1] \in {"Jmp", "Jnz", "Jlz"} }

LabelOf(i) == ast[i][2][Len(ast[i][2])]

UnknownJumps == { i \in JumpLines : DefsOf(LabelOf(i).inner) = {} }

\* the positions of the error list that hold error e, or satisfy a test
ErrsEqual(e) == { k \in DOMAIN errs : errs[k] = e }

RedefinedOf(name) == { k \in DOMAIN errs : errs[k][1] = "Redefined" /\ errs[k][2] = name }

----------------------------------------------------------------------------
(* C1 *)

\* C1: when the Ast resolves without error, the table maps every label to the
\* number of Instruction lines before its first definition, that is to the
\* index in the program of the instruction that follows the definition;
\* Label and Error lines consume no index.
C1_LabelIndex ==
    ResolvedOk =>
        \A name \in DefinedNames :
            /\ name \in DOMAIN labels
            /\ labels[name] = InstrLinesBefore(FirstDef(name))

----------------------------------------------------------------------------
(* C2 *)

\* C2: the first definition of a label is authoritative.  A name defined k
\* times has exactly k - 1 Redefined errors, each with the name, the span of
\* the earliest definition as first and the span of one later definition as
\* second, every later definition having its error; and the table entry of
\* the name stays, through the rest of the pass, the index recorded at the
\* first definition.
C2_FirstDefinitionWins ==
    Resolved =>
        \A name \in DefinedNames :
            LET defs == DefsOf(name)
                d1 == FirstDef(name)
                recorded == LabelPass(ast, d1 - 1).instr_idx
            IN  /\ Cardinality(RedefinedOf(name)) = Cardinality(defs) - 1
                /\ \A k \in RedefinedOf(name) : errs[k][3] = ast[d1][2].span
                /\ { errs[k][4] : k \in RedefinedOf(name) }
                     = { ast[i][2].span : i \in defs \ {d1} }
                /\ \A n \in d1 .. Len(ast) :
                     LabelPass(ast, n).labels[name] = recorded
                /\ ResolvedOk => labels[name] = recorded

\* a name defined three times, with an instruction between its definitions
C2_Witness ==
    /\ status = "label_errors"
    /\ \E name \in DefinedNames :
         /\ Cardinality(DefsOf(name)) = 3
         /\ Cardinality(RedefinedOf(name)) = 2
         /\ \E j \in DOMAIN ast :
              /\ IsInstr(ast[j])
              /\ j > FirstDef(name)
              /\ \E i \in DefsOf(name) : i > j

----------------------------------------------------------------------------
(* C3 *)

\* C3: resolve reports exactly one Unknown error, with the label token, for
\* each jump line whose label no line of the Ast defines, before or after
\* it, and no Unknown error for any other line.
C3_UnknownLabels ==
    Resolved =>
        /\ \A i \in JumpLines :
             Cardinality(ErrsEqual(Unknown(LabelOf(i))))
               = IF i \in UnknownJumps THEN 1 ELSE 0
        /\ \A k \in DOMAIN errs :
             errs[k][1] = "Unknown" =>
                 \E i \in UnknownJumps : errs[k][2] = LabelOf(i)

\* a jump to an undefined label after an unconditional jump over it, and a
\* jump to a label defined only after it
C3_Witness ==
    /\ status = "label_errors"
    /\ \E i \in UnknownJumps, j \in JumpLines \ UnknownJumps :
         /\ j < i
         /\ ast[j][2][1] = "Jmp"
         /\ FirstDef(LabelOf(j).inner) > i
         /\ Cardinality(ErrsEqual(Unknown(LabelOf(i)))) = 1

----------------------------------------------------------------------------
(* C4 *)

\* the Instruction lines of the Ast, in order
InstrLines == SelectSeq(ast, IsInstr)

\* C4: resolve is all-or-nothing.  It returns a program and a table exactly
\* when no name is defined twice and no jump names an undefined label, and
\* otherwise only a non-empty error list; the program is the subsequence of
\* the Instruction lines of the Ast, in order and unmodified.
C4_AllOrNothing ==
    Resolved =>
        LET clean == /\ \A name \in DefinedNames : Cardinality(DefsOf(name)) = 1
                     /\ UnknownJumps = {}
        IN  /\ clean <=> ResolvedOk
            /\ ~ clean <=> status = "label_errors"
            /\ ResolvedOk =>
                 /\ errs = <<>>
                 /\ Len(program) = Len(InstrLines)
                 /\ \A k \in DOMAIN program : program[k] = InstrLines[k][2]
                 /\ DOMAIN labels = DefinedNames
            /\ status = "label_errors" =>
                 /\ errs # <<>>
                 /\ program = <<>>
                 /\ labels = <<>>

\* a program resolved from an Ast with a Label, an Error and a jump line
C4_Witness ==
    /\ status = "running"
    /\ \E i, j, k \in DOMAIN ast :
         /\ IsError(ast[i])
         /\ IsLabel(ast[j])
         /\ k \in JumpLines
         /\ Len(program) = Len(ast) - 2
         /\ program[Len(program)] = ast[k][2]

----------------------------------------------------------------------------
(* Vocabulary of the properties of the machine *)

\* run_instr is about to execute an instruction
Executing == status = "running" /\ instr_ptr < Len(program)

\* that instruction and its opcode
Current == program[instr_ptr + 1]

Op == Current[1]

\* cell k of the conceptually infinite, zero-filled tape t
CellAt(t, k) == IF k < Len(t) THEN t[k + 1] ELSE 0

RegOf(r) == IF r = "X" THEN x ELSE acc

ValueOf(v) == IF v[1] = "Num" THEN v[2] ELSE x

Max(a, b) == IF a >= b THEN a ELSE b

----------------------------------------------------------------------------
(* C5 *)

\* one step that executes an instruction to its end without error
C5_Step ==
    (Executing /\ status' = "running") =>
        /\ Op = "Jmp" => instr_ptr' = labels[Current[2].inner]
        /\ Op = "Jnz" =>
             instr_ptr' = IF RegOf(Current[2]) # 0
                          THEN labels[Current[3].inner] ELSE instr_ptr + 1
        /\ Op = "Jlz" =>
             instr_ptr' = IF RegOf(Current[2]) < 0
                          THEN labels[Current[3].inner] ELSE instr_ptr + 1
        /\ Op \in {"Jmp", "Jnz", "Jlz"} => UNCHANGED <<x, acc, tape, cursor>>
        /\ Op \notin {"Jmp", "Jnz", "Jlz", "Ret"} => instr_ptr' = instr_ptr + 1
        /\ jumped' = FALSE

\* C5: a step that executes instruction i without error leaves the
\* instruction pointer at table[label] for a Jmp, a Jnz on a non-zero register
\* and a Jlz on a negative one, and at i + 1 for a Jnz or Jlz not taken and for
\* every instruction that is no control flow (Ret, which sets the pointer, is
\* C6's); the suppression lasts one step; Jmp, Jnz and Jlz change no register,
\* no cell, not the tape length and not the cursor.
C5_JumpSemantics == [][C5_Step]_vars

\* a Jnz on register x, non-zero, has jumped back to the start of its program
C5_Witness ==
    /\ status = "running"
    /\ Len(program) = 3
    /\ program[3][1] = "Jnz"
    /\ program[3][2] = "X"
    /\ x # 0
    /\ instr_ptr = 0
    /\ labels[program[3][3].inner] = 0

----------------------------------------------------------------------------
(* C6 *)

\* C6: Ret on a cell v >= 0 leaves the instruction pointer at exactly v, the
\* auto-increment suppressed.
C6_RetTarget ==
    [][(Executing /\ Op = "Ret" /\ CellAt(tape, cursor) >= 0) =>
           /\ status' = "running"
           /\ instr_ptr' = CellAt(tape, cursor)]_vars

----------------------------------------------------------------------------
(* C7 *)

\* the instruction about to execute is a Div by zero or a Ret on a negative cell
Fatal ==
    /\ Executing
    /\ \/ Op = "Div" /\ ValueOf(Current[2]) = 0
       \/ Op = "Ret" /\ CellAt(tape, cursor) < 0

C7_Step ==
    /\ status # "aborted"
    /\ Fatal =>
         /\ status' = "aborted"
         /\ err' = IF Op = "Div" THEN "div_by_zero" ELSE "ret_negative"
         /\ instr_ptr' = instr_ptr
         /\ output' = output
         /\ \A k \in 0 .. Max(Len(tape), Len(tape')) : CellAt(tape', k) = CellAt(tape, k)
         /\ UNCHANGED <<x, acc, cursor>>

\* C7: a Div whose operand evaluates to 0 and a Ret on a negative cell abort
\* the run at that step: the instruction pointer stays, nothing is printed, no
\* cell changes its value, and no step follows the abort.
C7_FatalErrors == [][C7_Step]_vars

\* the run aborted on a Div by register x, which is 0, after other instructions
C7_Witness ==
    /\ status = "aborted"
    /\ err = "div_by_zero"
    /\ instr_ptr > 0
    /\ program[instr_ptr + 1] = <<"Div", ValX>>
    /\ x = 0
    /\ CellAt(tape, cursor) # 0

----------------------------------------------------------------------------
(* C8 *)

\* C8: a run aborts only on a Div by zero, a Ret on a negative cell or a
\* failed read of standard input; no other execution aborts, in particular
\* not an Add, Mul or Dec whose result leaves the range of the integer, nor a
\* Div of the minimum value by -1.  Stated for the instructions other than
\* Inp (whose only abort is then the failed read) and for the build that is
\* kindest to the claim, the one whose arithmetic wraps.
C8_OnlyFatalErrors ==
    (status = "aborted" /\ Op # "Inp" /\ ~ overflow_checks) =>
        err \in {"div_by_zero", "ret_negative"}

----------------------------------------------------------------------------
(* C9 *)

\* the opcodes that read or write the cell at the cursor
TapeOps == {"Get", "Put", "Sav", "Ret", "Inp", "Out", "Set", "Add", "Mul", "Div"}

C9_Step ==
    LET n == Len(tape)
        c == cursor
    IN  /\ Len(tape') >= n
        /\ (Executing /\ Op \in {"Gol", "Gor", "Jmp", "Jnz", "Jlz", "Dec"}) =>
               tape' = tape
        /\ (Executing /\ Op \in TapeOps /\ (Op = "Inp" => status' = "running")) =>
               /\ Len(tape') = Max(n, c + 1)
               /\ \A k \in 1 .. n : k # c + 1 => tape'[k] = tape[k]
               /\ \A k \in (n + 1) .. Len(tape') : k # c + 1 => tape'[k] = 0
               /\ (c >= n /\ Op \in {"Put", "Ret", "Out", "Mul", "Div"}) => tape'[c + 1] = 0
               /\ (c >= n /\ Op = "Put") => (IF Current[2] = "X" THEN x' ELSE acc') = 0
               /\ (c >= n /\ Op = "Out") => output' = Append(output, 0)
               /\ (c >= n /\ Op = "Add") => tape'[c + 1] = ValueOf(Current[2])

\* C9: an instruction that accesses the cell at cursor k >= tape length
\* extends the tape to length exactly k + 1, the new cells 0 and the old ones
\* unchanged, so that the first read of a cell yields 0; the tape never
\* shrinks; Gol, Gor, Jmp, Jnz, Jlz and Dec leave the tape as it is.
C9_TapeGrowth == [][C9_Step]_vars

\* a Set two cells beyond the end of the empty tape
C9_Witness ==
    /\ status = "running"
    /\ instr_ptr = 3
    /\ program[1][1] = "Gor"
    /\ program[2][1] = "Gor"
    /\ program[3] = <<"Set", Num(2)>>
    /\ tape = <<0, 0, 2>>
    /\ cursor = 2

----------------------------------------------------------------------------
(* C10 *)

C10_Step ==
    cursor' = IF Executing /\ Op = "Gol" THEN (IF cursor = 0 THEN 0 ELSE cursor - 1)
              ELSE IF Executing /\ Op = "Gor" THEN cursor + 1
              ELSE cursor

\* C10: the cursor is never negative; Gol leaves a cursor 0 at 0 and
\* decrements any other, Gor increments it, and no other step changes it.
C10_Cursor == [](cursor \in Nat) /\ [][C10_Step]_vars

\* Gor, Gol and a second Gol at cursor 0 have run
C10_Witness ==
    /\ status = "running"
    /\ instr_ptr = 3
    /\ program[1][1] = "Gor"
    /\ program[2][1] = "Gol"
    /\ program[3][1] = "Gol"
    /\ cursor = 0

----------------------------------------------------------------------------
(* C11 *)

\* the values the specification lets Out print: a code point that is no
\* surrogate
C11_Printable(n) ==
    /\ 0 <= n /\ n <= CharMax
    /\ n \notin SurrogateLo .. SurrogateHi

C11_Step ==
    (Executing /\ Op = "Out") =>
        LET n == CellAt(tape, cursor)
        IN  /\ output' = IF C11_Printable(n) THEN Append(output, n) ELSE output
            /\ status' = "running" /\ err' = err
            /\ instr_ptr' = instr_ptr + 1
            /\ \A k \in 0 .. Max(Len(tape), Len(tape')) :
                   CellAt(tape', k) = CellAt(tape, k)

\* C11: Out prints the value under the cursor exactly when it is a code point
\* that is no surrogate (a control character such as 1 is printed); otherwise
\* it prints nothing and raises no error; either way the run continues with
\* the next instruction and no cell of the tape changes its value.
C11_Out == [][C11_Step]_vars

\* the code point 1 was printed, and a surrogate was then passed over in
\* silence
C11_Witness ==
    /\ Resolved /\ Len(program) = 4
    /\ program[2][1] = "Out" /\ program[4][1] = "Out"
    /\ instr_ptr = 4
    /\ status = "running"
    /\ output = <<1>>
    /\ tape = <<SurrogateLo>>

----------------------------------------------------------------------------
(* C12 *)

C12_Step ==
    (Executing /\ Op = "Out" /\ status' = "running") =>
        acc' = IF output' # output THEN 0 ELSE 1

\* C12: after every Out, acc is 0 when the value was printed and 1 when it
\* was not.
C12_AccAfterOut == [][C12_Step]_vars

----------------------------------------------------------------------------
(* C13 *)

\* the machine is as State::new built it: nothing was executed, printed or read
C13_NotStarted ==
    /\ x = 0 /\ acc = 0 /\ tape = <<>> /\ cursor = 0
    /\ instr_ptr = 0 /\ ~ jumped
    /\ input_buf = <<>> /\ input_cursor = 0 /\ ~ eof
    /\ output = <<>>
    /\ err = ""

\* the Ast has no label error
C13_Clean ==
    /\ \A name \in DefinedNames : Cardinality(DefsOf(name)) = 1
    /\ UnknownJumps = {}

\* the number of label errors of the Ast: the redefining Label lines and the
\* jumps to an unknown label
C13_LabelErrors ==
    (Len(SelectSeq(ast, IsLabel)) - Cardinality(DefinedNames))
        + Cardinality(UnknownJumps)

C13_Step ==
    /\ status = "parsed" =>
         IF C13_Clean
         THEN /\ status' = "running"
              /\ Len(program') = Len(InstrLines)
              /\ \A k \in DOMAIN program' : program'[k] = InstrLines[k][2]
         ELSE /\ status' = "label_errors"
              /\ Len(errs') = C13_LabelErrors
    /\ status # "label_errors"

\* C13: no instruction is executed before resolution has succeeded.  With a
\* label error, every label error is reported and nothing is ever executed,
\* printed or read; without one, the program of the Instruction lines of the
\* Ast is started, Error lines in the Ast notwithstanding.
C13_Pipeline ==
    /\ [](status \in {"parsed", "label_errors"} => C13_NotStarted)
    /\ [][C13_Step]_vars

\* an Ast with a line that did not parse and a jump, whose program has
\* executed its Dec
C13_Witness ==
    /\ status = "running"
    /\ \E i \in DOMAIN ast : IsError(ast[i])
    /\ JumpLines # {}
    /\ instr_ptr > 0
    /\ acc < 0

----------------------------------------------------------------------------
(* C14 *)

\* a program without Jmp, Jnz, Jlz, Ret, Inp and Div
C14_StraightLine ==
    /\ ResolvedOk
    /\ \A k \in DOMAIN program :
         program[k][1] \notin {"Jmp", "Jnz", "Jlz", "Ret", "Inp", "Div"}

\* C14: a program of n instructions without Jmp, Jnz, Jlz, Ret, Inp and Div
\* runs its instructions in index order to the halt at instr_ptr = n: it
\* never aborts, the pointer never passes n, and it halts only at n.
C14_StraightLineHalts ==
    C14_StraightLine =>
        /\ status # "aborted"
        /\ instr_ptr <= Len(program)
        /\ status = "halted" => instr_ptr = Len(program)

----------------------------------------------------------------------------
(* C15 *)

\* inp is entered, by run_instr or by inp itself
InInp == (Executing /\ Op = "Inp") \/ status = "reading"

\* inp finds the buffer exhausted
Exhausted == input_cursor = Len(input_buf)

\* the step ends the Inp instruction without error
InpReturns ==
    /\ status' = "running"
    /\ err' = err
    /\ instr_ptr' = instr_ptr + 1

C15_StepAsSpecified ==
    /\ (InInp /\ Exhausted /\ input_buf' # <<>>) =>
         /\ CellAt(tape', cursor) = Newline
         /\ input_cursor' = 0
         /\ InpReturns
    /\ (InInp /\ status' = "reading") => input_buf' = <<>>
    /\ (InInp /\ ~ Exhausted) =>
         /\ CellAt(tape', cursor) = input_buf[input_cursor + 1]
         /\ input_cursor' = input_cursor + 1

\* C15 as specified: an Inp that finds the buffer exhausted (the initial
\* state included) and reads a non-empty line writes the newline code 10,
\* sets the offset to 0 and returns without consuming a byte; it retries only
\* when the line read is empty; an Inp that finds the buffer not exhausted
\* writes the byte at the offset and advances the offset by one.
C15_RefillAsSpecified == [][C15_StepAsSpecified]_vars

C15_Step ==
    /\ (InInp /\ Exhausted /\ err' # "stdin_read") =>
         IF input_cursor = 0
         THEN IF input_buf' # <<>>
              THEN /\ CellAt(tape', cursor) = input_buf'[1]
                   /\ input_cursor' = 1
                   /\ InpReturns
              ELSE /\ tape' = tape
                   /\ input_cursor' = 0
                   /\ instr_ptr' = instr_ptr
                   /\ \/ status' = "reading" /\ err' = err
                      \/ status' = "aborted" /\ err' = "stack_overflow"
         ELSE /\ CellAt(tape', cursor) = Newline
              /\ input_cursor' = 0
              /\ InpReturns
    /\ (InInp /\ ~ Exhausted) =>
         /\ CellAt(tape', cursor) = input_buf[input_cursor + 1]
         /\ input_cursor' = input_cursor + 1
         /\ input_buf' = input_buf
         /\ InpReturns

\* C15: an Inp that finds the buffer exhausted replaces it with the line read
\* and then tests the offset it was entered with, not the line.  At offset 0
\* (the initial state) it starts over on the new buffer: it writes the first
\* byte of a non-empty line and sets the offset to 1, and reads again after
\* an empty line.  At any other offset it writes the newline code 10, sets
\* the offset to 0 and returns without consuming a byte, whether the line
\* read is empty or not.  An Inp that finds the buffer not exhausted writes
\* the byte at the offset and advances the offset by one.
C15_Refill == [][C15_Step]_vars

\* the first Inp took the only byte of an unterminated line; the second found
\* the buffer exhausted at offset 1, read the empty line of end-of-input,
\* wrote 10 and returned
C15_Witness ==
    /\ status = "running"
    /\ stdin_read = <<OtherByte>>
    /\ inp_values = <<OtherByte, Newline>>
    /\ input_buf = <<>>
    /\ input_cursor = 0
    /\ instr_ptr = 2
    /\ CellAt(tape, cursor) = Newline

----------------------------------------------------------------------------
(* C16 *)

\* inp finds the buffer exhausted with standard input at end-of-input, and
\* its read does not fail
AtEndOfInput == InInp /\ Exhausted /\ eof /\ err' # "stdin_read"

C16_StepAsSpecified ==
    AtEndOfInput =>
        /\ tape' = tape
        /\ inp_values' = inp_values
        /\ instr_ptr' = instr_ptr

C16_Step ==
    /\ AtEndOfInput =>
         /\ input_buf' = <<>> /\ input_cursor' = 0 /\ eof'
         /\ IF input_cursor = 0
            THEN /\ tape' = tape
                 /\ inp_values' = inp_values
                 /\ instr_ptr' = instr_ptr
                 /\ \/ status' = "reading" /\ err' = err
                    \/ status' = "aborted" /\ err' = "stack_overflow"
            ELSE /\ CellAt(tape', cursor) = Newline
                 /\ inp_values' = Append(inp_values, Newline)
                 /\ InpReturns
    /\ status = "reading" => status' \in {"reading", "aborted"}

----------------------------------------------------------------------------
(* C17 *)

C17_Step ==
    (Executing /\ Op = "Sav") =>
        /\ CellAt(tape', cursor) = instr_ptr
        /\ \A k \in 0 .. Max(Len(tape), Len(tape')) :
               k # cursor => CellAt(tape', k) = CellAt(tape, k)
        /\ UNCHANGED <<x, acc, cursor>>
        /\ status' = "running"
        /\ instr_ptr' = instr_ptr + 1

\* C17: a Sav at index i stores exactly i, its own index and not i + 1, in
\* the cell under the cursor, leaves x, acc, the cursor and every other cell
\* unchanged, and is followed by the normal increment of the instruction
\* pointer to i + 1.
C17_Sav == [][C17_Step]_vars

\* a Sav at index 1 has stored 1 in cell 1
C17_Witness ==
    /\ status = "running"
    /\ Len(program) >= 2
    /\ program[1][1] = "Gor"
    /\ program[2][1] = "Sav"
    /\ instr_ptr = 2
    /\ cursor = 1
    /\ tape = <<0, 1>>

----------------------------------------------------------------------------
(* C18 *)

\* C18: while standard input delivers non-empty newline-terminated lines,
\* the values the Inp instructions have written are, in order, the first
\* bytes of standard input: none is skipped, repeated or replaced.
C18_InputInOrder ==
    ~ eof =>
        /\ Len(inp_values) <= Len(stdin_read)
        /\ \A k \in DOMAIN inp_values : inp_values[k] = stdin_read[k]

----------------------------------------------------------------------------
(* C19 *)

\* C19: when resolve succeeds, every index in the label table lies in
\* 0 .. Len(program), a label after the last instruction mapping to
\* Len(program), and every Jmp, Jnz and Jlz of the program finds its label
\* in the table.
C19_TargetsInRange ==
    ResolvedOk =>
        /\ \A name \in DOMAIN labels : labels[name] \in 0 .. Len(program)
        /\ \A k \in DOMAIN program :
             IsJump(program[k]) => JumpToken(program[k]).inner \in DOMAIN labels

----------------------------------------------------------------------------
(* C20 *)

\* the Label lines that define a name again
RedefiningLines ==
    { i \in DOMAIN ast : IsLabel(ast[i]) /\ i > FirstDef(ast[i][2].inner) }

\* the line of the Ast an error is about: the second span of a Redefined,
\* the span of the token of an Unknown
LineOf(e) == IF e[1] = "Redefined" THEN e[4] ELSE e[2].span

\* C20: the error list is in the order of discovery of the two passes.
\* Every Redefined error comes before every Unknown error; the Redefined
\* errors are those of the redefining Label lines, in source order; the
\* Unknown errors are those of the jumps to an unknown label, in source
\* order; r redefining lines and u such jumps give exactly r + u errors.
C20_ErrorOrder ==
    Resolved =>
        /\ Len(errs) = Cardinality(RedefiningLines) + Cardinality(UnknownJumps)
        /\ \A k \in DOMAIN errs :
             IF errs[k][1] = "Redefined"
             THEN LineOf(errs[k]) \in RedefiningLines
             ELSE /\ errs[k][1] = "Unknown"
                  /\ LineOf(errs[k]) \in UnknownJumps
        /\ \A k, l \in DOMAIN errs :
             k < l =>
                 /\ errs[l][1] = "Redefined" => errs[k][1] = "Redefined"
                 /\ errs[k][1] = errs[l][1] => LineOf(errs[k]) < LineOf(errs[l])

\* three errors, two of a kind, where a jump to an unknown label stands in
\* the source before a redefinition and its error after
C20_Witness ==
    /\ status = "label_errors"
    /\ Len(errs) = 3
    /\ errs[1][1] = "Redefined"
    /\ errs[3][1] = "Unknown"
    /\ LineOf(errs[3]) < LineOf(errs[1])

====
